---- MODULE Spec2Model ----
(***************************************************************************)
(* Black-Scholes pricing of a European vanilla option (models/models.py):  *)
(* the VanillaOption contract, and the SpotPrice and ForwardPrice models   *)
(* that wrap it.                                                           *)
(*                                                                         *)
(* Floating-point numbers are modelled as decimal fixed-point numbers with *)
(* seven fractional digits (an integer n stands for n / One), extended     *)
(* with the IEEE values +inf, -inf and nan that numpy produces instead of  *)
(* raising.  Every product and quotient is computed limb by limb so that   *)
(* all intermediate integers stay below 2^31.                              *)
(***************************************************************************)
EXTENDS Integers, Sequences, FiniteSets

(***************************************************************************)
(* Fixed-point arithmetic                                                  *)
(***************************************************************************)
One == 10000000

Abs(n) == IF n < 0 THEN -n ELSE n

Sgn(n) == IF n < 0 THEN -1 ELSE IF n > 0 THEN 1 ELSE 0

\* x * y / One rounded to nearest, for x, y >= 0, by limbs: x = x1*10^4 + x0, y = yq*One + y1*10^3 + y0
MulMag(x, y) ==
  LET yq == y \div One
      yr == y % One
      x1 == x \div 10000
      x0 == x % 10000
      y1 == yr \div 1000
      y0 == yr % 1000
      B  == x0 * y1 + ((x0 * y0) \div 1000) + 5000
  IN  x * yq + x1 * y1 + ((x1 * y0 + (B \div 10)) \div 1000)

\* the float product a * b
MulFx(a, b) == Sgn(a) * Sgn(b) * MulMag(Abs(a), Abs(b))

RECURSIVE Pow10(_)
Pow10(n) == IF n = 0 THEN 1 ELSE 10 * Pow10(n - 1)

\* n further decimal digits of r / b, for 0 <= r < b
RECURSIVE DivDigits(_, _, _)
DivDigits(r, b, n) ==
  IF n = 0 THEN 0
  ELSE LET d == (r * 10) \div b
       IN  d * Pow10(n - 1) + DivDigits((r * 10) % b, b, n - 1)

\* what is left of r after n digits of r / b
RECURSIVE RemDigits(_, _, _)
RemDigits(r, b, n) == IF n = 0 THEN r ELSE RemDigits((r * 10) % b, b, n - 1)

\* x * One / y rounded to nearest, for x >= 0, y > 0: long division, seven
\* digits after the point
LongDiv(x, y) ==
  (x \div y) * One + DivDigits(x % y, y, 7)
    + (IF 2 * RemDigits(x % y, y, 7) >= y THEN 1 ELSE 0)

\* n / k rounded to nearest, for an integer k > 0
RoundDiv(n, k) == Sgn(n) * ((Abs(n) + (k \div 2)) \div k)

\* a divisor too wide for the digits' r * 10 loses its last digit, and the
\* quotient is taken ten times too large
DivMag(x, y) ==
  IF y < 200000000 THEN LongDiv(x, y) ELSE RoundDiv(LongDiv(x, (y + 5) \div 10), 10)

\* the float quotient a / b, b # 0
DivFx(a, b) == Sgn(a) * Sgn(b) * DivMag(Abs(a), Abs(b))

\* Newton's iteration for the square root of x > 0
RECURSIVE SqrtIter(_, _, _)
SqrtIter(x, y, n) ==
  LET z == RoundDiv(y + DivFx(x, y), 2)
  IN  IF n = 0 \/ Abs(z - y) <= 1 THEN z ELSE SqrtIter(x, z, n - 1)

SqrtFx(x) == IF x = 0 THEN 0 ELSE SqrtIter(x, IF x > One THEN x ELSE One, 40)

\* sum of t^(2k+1)/(2k+1), k = i, i+1, ..., with p = t^(2i+1) and q = t^2
RECURSIVE AtanhSeries(_, _, _)
AtanhSeries(p, q, k) ==
  IF p = 0 \/ k > 41 THEN 0
  ELSE RoundDiv(p, k) + AtanhSeries(MulFx(p, q), q, k + 2)

Ln2 == 6931472

\* the natural logarithm of x > 0: halve or double x into [3/4, 3/2], then
\* ln x = 2 atanh((x - 1) / (x + 1))
RECURSIVE LogFx(_)
LogFx(x) ==
  IF x > (3 * One) \div 2 THEN Ln2 + LogFx(x \div 2)
  ELSE IF x < (3 * One) \div 4 THEN LogFx(2 * x) - Ln2
  ELSE LET t == DivFx(x - One, x + One)
       IN  2 * AtanhSeries(t, MulFx(t, t), 1)

\* sum of f^k / k!, k = n, n+1, ..., with term = f^n / n!
RECURSIVE ExpSeries(_, _, _)
ExpSeries(term, f, n) ==
  IF term = 0 \/ n > 30 THEN 0
  ELSE term + ExpSeries(RoundDiv(MulFx(term, f), n + 1), f, n + 1)

Euler == 27182818

EulerInv == 3678794

\* y * e^k for an integer k
RECURSIVE ScaleByE(_, _)
ScaleByE(y, k) ==
  IF k = 0 \/ y = 0 THEN y
  ELSE IF k > 0 THEN ScaleByE(MulFx(y, Euler), k - 1)
  ELSE ScaleByE(MulFx(y, EulerInv), k + 1)

\* e^x: x = k + f with k an integer and -1 < f < 1
ExpFx(x) ==
  LET k == Sgn(x) * (Abs(x) \div One)
      f == x - k * One
  IN  ScaleByE(ExpSeries(One, f, 0), k)

\* erf(x) for x >= 0 (Abramowitz and Stegun 7.1.26; 1 beyond x = 6)
ErfMag(x) ==
  IF x > 6 * One THEN One
  ELSE LET t  == DivFx(One, One + MulFx(3275911, x))
           p5 == 10614054
           p4 == -14531520 + MulFx(t, p5)
           p3 == 14214137 + MulFx(t, p4)
           p2 == -2844967 + MulFx(t, p3)
           p1 == 2548296 + MulFx(t, p2)
       IN  One - MulFx(MulFx(t, p1), ExpFx(-MulFx(x, x)))

\* math.erf is odd
ErfFx(x) == IF x < 0 THEN -ErfMag(-x) ELSE ErfMag(x)

(***************************************************************************)
(* Float values: finite, or the IEEE specials; None is Python's None       *)
(***************************************************************************)
Fin(n) == [t |-> "fin", v |-> n]

PInf == [t |-> "pinf", v |-> 0]

NInf == [t |-> "ninf", v |-> 0]

NaN == [t |-> "nan", v |-> 0]

None == [t |-> "none", v |-> 0]

IsFin(x) == x.t = "fin"

IsInf(x) == x.t \in {"pinf", "ninf"}

SgnX(x) == IF x.t = "pinf" THEN 1 ELSE IF x.t = "ninf" THEN -1 ELSE Sgn(x.v)

Signed(s) == IF s > 0 THEN PInf ELSE NInf

NpNeg(x) ==
  IF x.t = "pinf" THEN NInf ELSE IF x.t = "ninf" THEN PInf
  ELSE IF x.t = "nan" THEN NaN ELSE Fin(-x.v)

NpAdd(a, b) ==
  IF a.t = "nan" \/ b.t = "nan" THEN NaN
  ELSE IF IsInf(a) THEN (IF IsInf(b) /\ b.t # a.t THEN NaN ELSE a)
  ELSE IF IsInf(b) THEN b
  ELSE Fin(a.v + b.v)

NpSub(a, b) == NpAdd(a, NpNeg(b))

NpMul(a, b) ==
  IF a.t = "nan" \/ b.t = "nan" THEN NaN
  ELSE IF IsInf(a) \/ IsInf(b)
       THEN (IF SgnX(a) * SgnX(b) = 0 THEN NaN ELSE Signed(SgnX(a) * SgnX(b)))
  ELSE Fin(MulFx(a.v, b.v))

\* numpy's true division: a zero divisor gives inf or nan (and a warning)
NpDiv(a, b) ==
  IF a.t = "nan" \/ b.t = "nan" THEN NaN
  ELSE IF IsInf(a) THEN (IF IsInf(b) THEN NaN
                         ELSE Signed(SgnX(a) * (IF SgnX(b) < 0 THEN -1 ELSE 1)))
  ELSE IF IsInf(b) THEN Fin(0)
  ELSE IF b.v = 0 THEN (IF a.v = 0 THEN NaN ELSE Signed(Sgn(a.v)))
  ELSE Fin(DivFx(a.v, b.v))

\* np.log: -inf at 0 and nan below it (and a warning)
NpLog(x) ==
  IF x.t = "nan" \/ x.t = "ninf" THEN NaN
  ELSE IF x.t = "pinf" THEN PInf
  ELSE IF x.v = 0 THEN NInf
  ELSE IF x.v < 0 THEN NaN
  ELSE Fin(LogFx(x.v))

\* np.sqrt: nan below 0 (and a warning)
NpSqrt(x) ==
  IF x.t = "nan" \/ x.t = "ninf" THEN NaN
  ELSE IF x.t = "pinf" THEN PInf
  ELSE IF x.v < 0 THEN NaN
  ELSE Fin(SqrtFx(x.v))

NpExp(x) ==
  IF x.t = "nan" THEN NaN
  ELSE IF x.t = "pinf" THEN PInf
  ELSE IF x.t = "ninf" THEN Fin(0)
  ELSE Fin(ExpFx(x.v))

Erf(x) ==
  IF x.t = "nan" THEN NaN
  ELSE IF x.t = "pinf" THEN Fin(One)
  ELSE IF x.t = "ninf" THEN Fin(-One)
  ELSE Fin(ErfFx(x.v))

Sqrt2 == 14142136

Half == 5000000

\* statistics.NormalDist().cdf(x) = 0.5 * (1.0 + erf((x - mu) / (sigma * sqrt(2))))
\* with mu = 0.0 and sigma = 1.0
NormCdf(x) ==
  NpMul(Fin(Half),
        NpAdd(Fin(One), Erf(NpDiv(NpSub(x, Fin(0)), NpMul(Fin(One), Fin(Sqrt2))))))

(***************************************************************************)
(* The outcome of evaluating an expression: a value or a raised exception, *)
(* with the properties read on the way                                     *)
(***************************************************************************)
Ok(x, tch) == [kind |-> "ok", val |-> x, err |-> "", touched |-> tch]

Raise(e, tch) == [kind |-> "raise", val |-> None, err |-> e, touched |-> tch]

\* a field of the dataclass, or a literal
Field(n) == Ok(Fin(n), {})

\* a property read: r is what its body evaluates to
Touch(name, r) == [r EXCEPT !.touched = @ \cup {name}]

\* f(a): the argument is evaluated first
Lift1(F(_), a) ==
  IF a.kind = "raise" THEN a ELSE Ok(F(a.val), a.touched)

\* a op b: operands are evaluated left to right
Lift2(Op(_, _), a, b) ==
  IF a.kind = "raise" THEN a
  ELSE IF b.kind = "raise" THEN Raise(b.err, a.touched \cup b.touched)
  ELSE Ok(Op(a.val, b.val), a.touched \cup b.touched)

\* a / b on Python floats: a zero divisor raises
PyTrueDiv(a, b) ==
  IF a.kind = "raise" THEN a
  ELSE IF b.kind = "raise" THEN Raise(b.err, a.touched \cup b.touched)
  ELSE IF IsFin(b.val) /\ b.val.v = 0
       THEN Raise("ZeroDivisionError", a.touched \cup b.touched)
  ELSE Ok(NpDiv(a.val, b.val), a.touched \cup b.touched)

(***************************************************************************)
(* pd.to_datetime(s, format="%d.%m.%Y"): a string is a sequence of         *)
(* characters                                                             *)
(***************************************************************************)
Digits == <<"0", "1", "2", "3", "4", "5", "6", "7", "8", "9">>

IsDigit(c) == \E i \in 1..10 : Digits[i] = c

DigitVal(c) == (CHOOSE i \in 1..10 : Digits[i] = c) - 1

AllDigits(s) == \A i \in 1..Len(s) : IsDigit(s[i])

RECURSIVE ToInt(_)
ToInt(s) == IF s = <<>> THEN 0 ELSE 10 * ToInt(SubSeq(s, 1, Len(s) - 1)) + DigitVal(s[Len(s)])

\* the positions of the "." characters
Dots(s) == {i \in 1..Len(s) : s[i] = "."}

IsLeap(y) == (y % 4 = 0) /\ ((y % 100 # 0) \/ (y % 400 = 0))

DaysInMonth(y, m) ==
  IF m = 2 THEN (IF IsLeap(y) THEN 29 ELSE 28)
  ELSE IF m \in {4, 6, 9, 11} THEN 30 ELSE 31

RECURSIVE DaysBeforeMonth(_, _)
DaysBeforeMonth(y, m) == IF m = 1 THEN 0 ELSE DaysBeforeMonth(y, m - 1) + DaysInMonth(y, m - 1)

\* the day's number in the proleptic Gregorian calendar
Ordinal(y, m, d) ==
  365 * (y - 1) + ((y - 1) \div 4) - ((y - 1) \div 100) + ((y - 1) \div 400)
    + DaysBeforeMonth(y, m) + d

\* day.month.year: one or two digits, one or two digits, four digits
ToDatetime(s) ==
  IF Cardinality(Dots(s)) # 2 THEN Raise("ValueError", {})
  ELSE LET i  == CHOOSE k \in Dots(s) : \A l \in Dots(s) : k <= l
           j  == CHOOSE k \in Dots(s) : \A l \in Dots(s) : k >= l
           ds == SubSeq(s, 1, i - 1)
           ms == SubSeq(s, i + 1, j - 1)
           ys == SubSeq(s, j + 1, Len(s))
       IN  IF ~(/\ Len(ds) \in {1, 2} /\ Len(ms) \in {1, 2} /\ Len(ys) = 4
                /\ AllDigits(ds) /\ AllDigits(ms) /\ AllDigits(ys))
           THEN Raise("ValueError", {})
           ELSE IF ~(/\ ToInt(ms) \in 1..12
                     /\ ToInt(ys) >= 1
                     /\ ToInt(ds) \in 1..DaysInMonth(ToInt(ys), ToInt(ms)))
           THEN Raise("ValueError", {})
           ELSE Ok(Ordinal(ToInt(ys), ToInt(ms), ToInt(ds)), {})

(***************************************************************************)
(* VanillaOption                                                           *)
(***************************************************************************)
\* delta_days / 365 on Python ints
DaysOver365(n) == Fin(Sgn(n) * LongDiv(Abs(n), 365))

\* time_to_expiry with the parser's errors coerced to NaT: nan instead of an exception
time_to_expiry_coerce(o) ==
  LET expiry == ToDatetime(o.expiry_date)
      trade  == ToDatetime(o.trade_date)
  IN  Touch("time_to_expiry",
        IF expiry.kind = "raise" \/ trade.kind = "raise" THEN Ok(NaN, {})
        ELSE Ok(DaysOver365(expiry.val - trade.val), {}))

time_to_expiry(o) ==
  LET expiry == ToDatetime(o.expiry_date)
      trade  == ToDatetime(o.trade_date)
  IN  Touch("time_to_expiry",
        IF expiry.kind = "raise" THEN expiry
        ELSE IF trade.kind = "raise" THEN trade
        ELSE Ok(DaysOver365(expiry.val - trade.val), {}))

risk_free_cont(o) ==
  Touch("risk_free_cont", Lift1(NpLog, Lift2(NpAdd, Field(One), Field(o.risk_free_int))))

\* (o.volatility**2) / 2
HalfVariance(o) ==
  Lift2(NpDiv, Lift2(NpMul, Field(o.volatility), Field(o.volatility)), Field(2 * One))

\* o.volatility * np.sqrt(o.time_to_expiry)
VolSqrtT(o) == Lift2(NpMul, Field(o.volatility), Lift1(NpSqrt, time_to_expiry(o)))

\* np.exp(-o.risk_free_cont * o.time_to_expiry)
Discount(o) ==
  Lift1(NpExp, Lift2(NpMul, Lift1(NpNeg, risk_free_cont(o)), time_to_expiry(o)))

(***************************************************************************)
(* SpotPrice                                                               *)
(***************************************************************************)
SpotPrice_price(o) == Touch("price", Field(o.spot_price))

\* d1 with the rate term left out, as in the forward formula
SpotPrice_d1_no_carry(o) ==
  Touch("d1",
    Lift2(NpDiv,
      Lift2(NpAdd,
        Lift1(NpLog, PyTrueDiv(SpotPrice_price(o), Field(o.strike_price))),
        Lift2(NpMul, time_to_expiry(o), HalfVariance(o))),
      VolSqrtT(o)))

SpotPrice_d1(o) ==
  Touch("d1",
    Lift2(NpDiv,
      Lift2(NpAdd,
        Lift1(NpLog, PyTrueDiv(SpotPrice_price(o), Field(o.strike_price))),
        Lift2(NpMul, time_to_expiry(o),
              Lift2(NpAdd, risk_free_cont(o), HalfVariance(o)))),
      VolSqrtT(o)))

SpotPrice_d2(o) == Touch("d2", Lift2(NpSub, SpotPrice_d1(o), VolSqrtT(o)))

SpotPrice_call(o) ==
  Touch("call",
    Lift2(NpSub,
      Lift2(NpMul, Lift1(NormCdf, SpotPrice_d1(o)), SpotPrice_price(o)),
      Lift2(NpMul,
        Lift2(NpMul, Lift1(NormCdf, SpotPrice_d2(o)), Field(o.strike_price)),
        Discount(o))))

\* a put derived from the call by parity instead of None
SpotPrice_put_by_parity(o) ==
  Touch("put",
    Lift2(NpAdd,
      Lift2(NpSub, SpotPrice_call(o), Field(o.spot_price)),
      Lift2(NpMul, Field(o.strike_price), Discount(o))))

SpotPrice_put(o) == Touch("put", Ok(None, {}))

SpotPrice_put_from_parity(o) == Touch("put_from_parity", Ok(None, {}))

(***************************************************************************)
(* ForwardPrice                                                            *)
(***************************************************************************)
\* the forward price with the dividend yield taken off the carry
ForwardPrice_price_with_yield(o) ==
  Touch("price",
    Lift2(NpMul, Field(o.spot_price),
          Lift1(NpExp, Lift2(NpMul, Lift2(NpSub, risk_free_cont(o), Field(o.dividends)),
                             time_to_expiry(o)))))

ForwardPrice_price(o) ==
  Touch("price",
    Lift2(NpMul, Field(o.spot_price),
          Lift1(NpExp, Lift2(NpMul, risk_free_cont(o), time_to_expiry(o)))))

\* d1 with the variance term subtracted
ForwardPrice_d1_minus(o) ==
  Touch("d1",
    Lift2(NpDiv,
      Lift2(NpSub,
        Lift1(NpLog, Lift2(NpDiv, ForwardPrice_price(o), Field(o.strike_price))),
        Lift2(NpDiv,
          Lift2(NpMul, time_to_expiry(o),
                Lift2(NpMul, Field(o.volatility), Field(o.volatility))),
          Field(2 * One))),
      VolSqrtT(o)))

ForwardPrice_d1(o) ==
  Touch("d1",
    Lift2(NpDiv,
      Lift2(NpAdd,
        Lift1(NpLog, Lift2(NpDiv, ForwardPrice_price(o), Field(o.strike_price))),
        Lift2(NpDiv,
          Lift2(NpMul, time_to_expiry(o),
                Lift2(NpMul, Field(o.volatility), Field(o.volatility))),
          Field(2 * One))),
      VolSqrtT(o)))

ForwardPrice_d2(o) == Touch("d2", Lift2(NpSub, ForwardPrice_d1(o), VolSqrtT(o)))

\* the call without the discount factor
ForwardPrice_call_undiscounted(o) ==
  Touch("call",
    Lift2(NpSub,
      Lift2(NpMul, Lift1(NormCdf, ForwardPrice_d1(o)), ForwardPrice_price(o)),
      Lift2(NpMul, Lift1(NormCdf, ForwardPrice_d2(o)), Field(o.strike_price))))

ForwardPrice_call(o) ==
  Touch("call",
    Lift2(NpMul,
      Lift2(NpSub,
        Lift2(NpMul, Lift1(NormCdf, ForwardPrice_d1(o)), ForwardPrice_price(o)),
        Lift2(NpMul, Lift1(NormCdf, ForwardPrice_d2(o)), Field(o.strike_price))),
      Discount(o)))

\* the put with cdf(d2) and cdf(d1) in place of cdf(-d2) and cdf(-d1)
ForwardPrice_put_unsigned(o) ==
  Touch("put",
    Lift2(NpMul,
      Lift2(NpSub,
        Lift2(NpMul, Lift1(NormCdf, ForwardPrice_d2(o)), Field(o.strike_price)),
        Lift2(NpMul, Lift1(NormCdf, ForwardPrice_d1(o)), ForwardPrice_price(o))),
      Discount(o)))

ForwardPrice_put(o) ==
  Touch("put",
    Lift2(NpMul,
      Lift2(NpSub,
        Lift2(NpMul, Lift1(NormCdf, Lift1(NpNeg, ForwardPrice_d2(o))), Field(o.strike_price)),
        Lift2(NpMul, Lift1(NormCdf, Lift1(NpNeg, ForwardPrice_d1(o))), ForwardPrice_price(o))),
      Discount(o)))

ForwardPrice_put_from_parity(o) ==
  Touch("put_from_parity",
    Lift2(NpAdd,
      Lift2(NpSub, ForwardPrice_call(o), Field(o.spot_price)),
      Lift2(NpMul, Field(o.strike_price), Discount(o))))

(***************************************************************************)
(* The contracts a caller builds                                           *)
(***************************************************************************)
MaxSpot == 110

MaxStrike == 110

MaxVolPct == 30

Str_23_11_2022 == <<"2", "3", ".", "1", "1", ".", "2", "0", "2", "2">>

Str_10_05_2023 == <<"1", "0", ".", "0", "5", ".", "2", "0", "2", "3">>

Str_29_12_2022 == <<"2", "9", ".", "1", "2", ".", "2", "0", "2", "2">>

Str_22_11_2022 == <<"2", "2", ".", "1", "1", ".", "2", "0", "2", "2">>

\* not day.month.year
Str_2023_05_10 == <<"2", "0", "2", "3", "-", "0", "5", "-", "1", "0">>

\* no such day
Str_31_02_2023 == <<"3", "1", ".", "0", "2", ".", "2", "0", "2", "3">>

\* a two-digit year
Str_10_05_23 == <<"1", "0", ".", "0", "5", ".", "2", "3">>

Pct(n) == n * (One \div 100)

Spots == {100 * One, 101 * One, MaxSpot * One}

Strikes == {100 * One, 101 * One, MaxStrike * One}

\* 0, the 0.005 of the test scenarios, and 0.05
Rates == {0, 50000, 500000}

Dividends == {0, Pct(2)}

Volatilities == {Pct(10), Pct(MaxVolPct)}

ExpiryDates == {Str_10_05_2023, Str_29_12_2022}

ValidOptions ==
  [trade_date : {Str_23_11_2022}, expiry_date : ExpiryDates, spot_price : Spots,
   strike_price : Strikes, risk_free_int : Rates, dividends : Dividends,
   volatility : Volatilities]

\* the in-the-money scenario of the tests
Itm ==
  [trade_date |-> Str_23_11_2022, expiry_date |-> Str_10_05_2023,
   spot_price |-> 110 * One, strike_price |-> 100 * One, risk_free_int |-> 50000,
   dividends |-> 0, volatility |-> Pct(30)]

\* far out of the money and far in the money: a month to expiry, low volatility
DeepOptions ==
  {[Itm EXCEPT !.expiry_date = Str_29_12_2022, !.volatility = Pct(10),
               !.spot_price = 100 * One, !.strike_price = 150 * One],
   [Itm EXCEPT !.expiry_date = Str_29_12_2022, !.volatility = Pct(10),
               !.spot_price = 150 * One, !.strike_price = 100 * One]}

\* contracts the constructor accepts for which the formulas are undefined, or
\* whose dates do not parse
EdgeOptions ==
  {[Itm EXCEPT !.volatility = 0],
   [Itm EXCEPT !.expiry_date = Str_23_11_2022],
   [Itm EXCEPT !.expiry_date = Str_22_11_2022],
   [Itm EXCEPT !.spot_price = 0],
   [Itm EXCEPT !.spot_price = -One],
   [Itm EXCEPT !.strike_price = 0],
   [Itm EXCEPT !.strike_price = -One],
   [Itm EXCEPT !.spot_price = 100 * One, !.expiry_date = Str_23_11_2022],
   [Itm EXCEPT !.expiry_date = Str_2023_05_10],
   [Itm EXCEPT !.expiry_date = Str_31_02_2023],
   [Itm EXCEPT !.expiry_date = Str_10_05_23],
   [Itm EXCEPT !.trade_date = Str_2023_05_10],
   [Itm EXCEPT !.trade_date = Str_2023_05_10, !.volatility = 0],
   [Itm EXCEPT !.expiry_date = Str_31_02_2023, !.strike_price = 0]}

Options == ValidOptions \cup DeepOptions \cup EdgeOptions

(***************************************************************************)
(* State: the contract, the pricing model wrapping it, and what the last   *)
(* property read returned                                                  *)
(***************************************************************************)
VARIABLES created, option, model, last

vars == <<created, option, model, last>>

Variants == {"SpotPrice", "ForwardPrice"}

NoModel == [variant |-> "none", _option |-> <<>>]

NoRead == [who |-> "none", prop |-> "none", res |-> Ok(None, {})]

\* the dataclass's generated __init__ stores its arguments
VanillaOptionInit(args) == args

\* a copy with the spot price net of the dividend yield, instead of the contract
BlackScholesInit_adjusted_copy(o) ==
  [o EXCEPT !.spot_price = MulFx(@, One - o.dividends)]

\* BlackScholes.__init__: self._option = option
BlackScholesInit(o) == o

\* property dispatch on the model's class
ReadModel(variant, prop, o) ==
  CASE prop = "price" ->
         IF variant = "SpotPrice" THEN SpotPrice_price(o) ELSE ForwardPrice_price(o)
    [] prop = "d1" ->
         IF variant = "SpotPrice" THEN SpotPrice_d1(o) ELSE ForwardPrice_d1(o)
    [] prop = "d2" ->
         IF variant = "SpotPrice" THEN SpotPrice_d2(o) ELSE ForwardPrice_d2(o)
    [] prop = "call" ->
         IF variant = "SpotPrice" THEN SpotPrice_call(o) ELSE ForwardPrice_call(o)
    [] prop = "put" ->
         IF variant = "SpotPrice" THEN SpotPrice_put(o) ELSE ForwardPrice_put(o)
    [] prop = "put_from_parity" ->
         IF variant = "SpotPrice" THEN SpotPrice_put_from_parity(o)
         ELSE ForwardPrice_put_from_parity(o)

ReadOption(prop, o) ==
  IF prop = "time_to_expiry" THEN time_to_expiry(o) ELSE risk_free_cont(o)

Init ==
  /\ created \in Options
  /\ option = VanillaOptionInit(created)
  /\ model = NoModel
  /\ last = NoRead

\* model = SpotPrice(option) or ForwardPrice(option)
Wrap(v) ==
  /\ model = NoModel
  /\ model' = [variant |-> v, _option |-> BlackScholesInit(option)]
  /\ UNCHANGED <<created, option, last>>

GetOption(prop) ==
  /\ last' = [who |-> "option", prop |-> prop, res |-> ReadOption(prop, option)]
  /\ UNCHANGED <<created, option, model>>

GetModel(prop) ==
  /\ model # NoModel
  /\ last' = [who |-> model.variant, prop |-> prop,
              res |-> ReadModel(model.variant, prop, model._option)]
  /\ UNCHANGED <<created, option, model>>

GetTimeToExpiry == GetOption("time_to_expiry")

GetRiskFreeCont == GetOption("risk_free_cont")

GetPrice == GetModel("price")

GetD1 == GetModel("d1")

GetD2 == GetModel("d2")

GetCall == GetModel("call")

GetPut == GetModel("put")

GetPutFromParity == GetModel("put_from_parity")

Next ==
  \/ \E v \in Variants : Wrap(v)
  \/ GetTimeToExpiry
  \/ GetRiskFreeCont
  \/ GetPrice
  \/ GetD1
  \/ GetD2
  \/ GetCall
  \/ GetPut
  \/ GetPutFromParity

Spec == Init /\ [][Next]_vars

(***************************************************************************)
(* Vocabulary of the properties                                            *)
(***************************************************************************)
\* atol of np.isclose in the tests: 1e-4
Tol == 1000

\* right_part_parity of the tests
right_part_parity(o) ==
  Lift2(NpSub, Field(o.spot_price), Lift2(NpMul, Field(o.strike_price), Discount(o)))

IsNum(r) == r.kind = "ok" /\ r.val.t = "fin"

IsNanInf(r) == r.kind = "ok" /\ r.val.t \in {"nan", "pinf", "ninf"}

Close(a, b) == Abs(a - b) <= Tol

DatesParse(o) ==
  ToDatetime(o.trade_date).kind = "ok" /\ ToDatetime(o.expiry_date).kind = "ok"

\* spot > 0, strike > 0, volatility > 0, time_to_expiry > 0
Valid(o) ==
  /\ o.spot_price > 0 /\ o.strike_price > 0 /\ o.volatility > 0
  /\ DatesParse(o)
  /\ ToDatetime(o.expiry_date).val > ToDatetime(o.trade_date).val

\* the formulas are undefined: a zero volatility, no time left, a price or
\* strike that is not positive
DomainFailure(o) ==
  /\ DatesParse(o)
  /\ \/ o.volatility = 0
     \/ ToDatetime(o.expiry_date).val <= ToDatetime(o.trade_date).val
     \/ o.spot_price <= 0
     \/ o.strike_price <= 0

Other(v) == IF v = "SpotPrice" THEN "ForwardPrice" ELSE "SpotPrice"

ReadForward(prop) == last.who = "ForwardPrice" /\ last.prop = prop

C3_SpotPutIsNone ==
  last.who = "SpotPrice" /\ last.prop \in {"put", "put_from_parity"} =>
    /\ last.res.kind = "ok"
    /\ last.res.val = None
    /\ last.res.touched = {last.prop}

C3_Witness ==
  /\ ~DatesParse(created)
  /\ created.volatility = 0
  /\ last.who = "SpotPrice" /\ last.prop = "put"
  /\ last.res.val = None

(***************************************************************************)
(* C4: for a valid contract the Forward variant's call and put are         *)
(* strictly positive.                                                      *)
(***************************************************************************)
C4_SignInvariant ==
  Valid(created) /\ last.who = "ForwardPrice" /\ last.prop \in {"call", "put"} =>
    IsNum(last.res) /\ last.res.val.v > 0

DateDependent(who, prop) ==
  \/ who = "option" /\ prop = "time_to_expiry"
  \/ who = "ForwardPrice"
  \/ who = "SpotPrice" /\ prop \in {"d1", "d2", "call"}

C7_UniformDomainPolicy ==
  /\ DomainFailure(created)
  /\ last.who \in Variants
  /\ last.prop \in {"d1", "d2", "call", "put"}
  => LET other == ReadModel(Other(last.who), last.prop, model._option)
     IN  /\ ~(last.res.kind = "raise" /\ IsNanInf(other))
         /\ ~(IsNanInf(last.res) /\ other.kind = "raise")

C9_VariantsAgree ==
  Valid(created) /\ last.who \in Variants =>
    LET o == model._option
        other == ReadModel(Other(last.who), last.prop, o)
    IN  /\ last.prop \in {"d1", "d2", "call"} =>
             /\ IsNum(last.res) /\ IsNum(other)
             /\ Close(last.res.val.v, other.val.v)
        /\ last.prop = "d2" =>
             last.res.val.v
               = ReadModel(last.who, "d1", o).val.v - VolSqrtT(o).val.v
        /\ last.prop = "price" =>
             /\ IsNum(last.res)
             /\ last.who = "SpotPrice" => last.res.val.v = o.spot_price
             /\ last.who = "ForwardPrice" =>
                  /\ last.res.val.v >= o.spot_price
                  /\ o.risk_free_int > 0 => last.res.val.v > o.spot_price + Tol

C9_Witness ==
  /\ created = Itm
  /\ last.who = "SpotPrice" /\ last.prop = "call"
  /\ IsNum(last.res)
  /\ IsNum(ForwardPrice_call(model._option))
  /\ ForwardPrice_price(model._option).val.v > SpotPrice_price(model._option).val.v

(***************************************************************************)
(* C10: the dividends field has no influence: a contract that differs      *)
(* only in its dividends gives the same result for every read of the       *)
(* contract and of both variants.                                          *)
(***************************************************************************)
C10_DividendsIgnored ==
  \A d \in Dividends :
    LET twin == [created EXCEPT !.dividends = d]
    IN  /\ last.who = "option" => last.res = ReadOption(last.prop, twin)
        /\ last.who \in Variants =>
             last.res = ReadModel(last.who, last.prop, BlackScholesInit(VanillaOptionInit(twin)))

C10_Witness ==
  /\ created.dividends = Pct(2)
  /\ Valid(created)
  /\ ReadForward("price")
  /\ IsNum(last.res)
  /\ last.res = ForwardPrice_price([created EXCEPT !.dividends = 0])

====
